---- MODULE Spec2Model ----
(***************************************************************************)
(* A model of the Whitespace interpreter of this repository:               *)
(*   - Parser (src/src/parser.rs): tokens -> instructions,                  *)
(*   - VM     (src/src/interpreter.rs): the fetch-execute loop,             *)
(*   - main   (src/src/main.rs): the error report after a failed run.       *)
(* Indices are 0-based as in the source (instruction_ptr, current, heap     *)
(* addresses, label targets); TLA+ sequences are 1-based, so element i of   *)
(* the source is element i + 1 of the sequence that models it.              *)
(***************************************************************************)
EXTENDS Integers, Sequences, FiniteSets, TLC

VARIABLES
    \* VM (interpreter.rs:8-13) and the slice handed to VM::execute
    instructions,      \* &[Instruction], the program being executed
    instruction_ptr,   \* VM.instruction_ptr
    stack,             \* VM.stack
    labels,            \* VM.labels
    heap,              \* VM.heap (cell a is heap[a + 1])
    vm_status,         \* "new" | "running" | "ok" | "error" | "panic"
    vm_error,          \* the anyhow message of Err, or the panic message
    printed,           \* what print! wrote, one entry per call (code points)
    report,            \* what main printed after Err (main.rs:19-23)
    pending_calls,     \* history: the Calls whose return address is still on the stack
    \* Parser (parser.rs:33-37)
    input,             \* Parser.input
    current,           \* Parser.current
    output,            \* Parser.output
    parse_status,      \* "idle" | "running" | "ok" | "err" | "panic"
    parse_error,       \* the bail! message, or the panic message
    \* Lexer (lexer.rs:9-11) and the iterator chain of Lexer::lex
    lexer_input,       \* Lexer.input, the characters of the text
    chars_pos,         \* how many characters self.input.chars() has yielded
    tokens,            \* the tokens that have passed filter and map so far
    lex_status         \* "absent" | "running" | "ok" | "panic"

vmVars == <<instructions, instruction_ptr, stack, labels, heap, vm_status,
            vm_error, printed, report, pending_calls>>
parserVars == <<input, current, output, parse_status, parse_error>>
lexerVars == <<lexer_input, chars_pos, tokens, lex_status>>
vars == <<instructions, instruction_ptr, stack, labels, heap, vm_status,
          vm_error, printed, report, pending_calls,
          input, current, output, parse_status, parse_error,
          lexer_input, chars_pos, tokens, lex_status>>

\* no Lexer is at work
LexerAbsent ==
    /\ lexer_input = <<>>
    /\ chars_pos = 0
    /\ tokens = <<>>
    /\ lex_status = "absent"

(***************************************************************************)
(* Bounds of the model.                                                    *)
(***************************************************************************)
MaxProg == 3        \* longest instruction sequence handed to execute
HeapSize == 2       \* the heap_size given to VM::with_heap_size
MaxStack == 4       \* deepest stack explored
MaxPrinted == 2     \* most print! calls explored
MaxTokens == 8      \* longest exhaustively enumerated token sequence
MaxLabel == 3       \* longest label literal of the samples
NumRange == 8       \* number literals -NumRange..NumRange are sampled
MaxEncoded == 2     \* most sample instructions encoded into one input
MaxText == 3        \* longest exhaustively enumerated text

(***************************************************************************)
(* i32 arithmetic.  TLC's integers are 32-bit and overflow is an error in  *)
(* TLC, so the wrapped results are computed without leaving the range.     *)
(***************************************************************************)
MaxI32 == 2147483647
MinI32 == -MaxI32 - 1

AddOverflows(a, b) ==
    \/ b > 0 /\ a > MaxI32 - b
    \/ b < 0 /\ a < MinI32 - b

WrappingAdd(a, b) ==
    IF b > 0 /\ a > MaxI32 - b THEN ((a - MaxI32 - 1) + b) + MinI32
    ELSE IF b < 0 /\ a < MinI32 - b THEN (((a - MinI32) + b) + MaxI32) + 1
    ELSE a + b

SubOverflows(a, b) ==
    \/ b < 0 /\ a > MaxI32 + b
    \/ b > 0 /\ a < MinI32 + b

WrappingSub(a, b) ==
    IF b = MinI32 THEN (IF a >= 0 THEN a + MinI32 ELSE a - MinI32)
    ELSE WrappingAdd(a, -b)

AbsNotMin(a) == IF a < 0 THEN -a ELSE a

MulOverflows(a, b) ==
    IF a = 0 \/ b = 0 THEN FALSE
    ELSE IF a = MinI32 THEN b # 1
    ELSE IF b = MinI32 THEN a # 1
    ELSE IF (a > 0) = (b > 0) THEN AbsNotMin(a) > MaxI32 \div AbsNotMin(b)
    ELSE \* a negative product may reach -2^31
         IF MaxI32 % AbsNotMin(b) = AbsNotMin(b) - 1
         THEN AbsNotMin(a) - 1 > MaxI32 \div AbsNotMin(b)
         ELSE AbsNotMin(a) > MaxI32 \div AbsNotMin(b)

\* the two 16-bit halves of the two's complement of a, and back
LowHalf(a) == a % 65536
HighHalf(a) == (a \div 65536) % 65536
FromHalves(high, low) ==
    IF high >= 32768 THEN (high - 65536) * 65536 + low ELSE high * 65536 + low

\* the 32-bit product of two 16-bit halves x and y, as halves
MulHalves(x, y) ==
    LET p == (x \div 256) * y
        q == (x % 256) * y
        low == (p % 256) * 256 + (q % 65536)
    IN  [low |-> low % 65536,
         high |-> ((p \div 256) + (q \div 65536) + (low \div 65536)) % 65536]

\* the low 32 bits of a * b
WrappingMul(a, b) ==
    LET ll == MulHalves(LowHalf(a), LowHalf(b))
        hl == MulHalves(HighHalf(a), LowHalf(b))
        lh == MulHalves(LowHalf(a), HighHalf(b))
    IN  FromHalves((ll.high + hl.low + lh.low) % 65536, ll.low)

\* i32 `/`, truncating toward zero; b # 0 and not (a = MinI32 and b = -1)
TruncDivPos(a, b) ==
    IF a >= 0 \/ a % b = 0 THEN a \div b ELSE (a \div b) + 1

TruncDiv(a, b) ==
    IF b > 0 THEN TruncDivPos(a, b)
    ELSE IF b = MinI32 THEN (IF a = MinI32 THEN 1 ELSE 0)
    ELSE -TruncDivPos(a, -b)

\* i32 `%`, the remainder of the truncating division (sign of the dividend)
TruncRem(a, b) == a - b * TruncDiv(a, b)

\* i32::checked_div: None on a zero divisor and on MinI32 / -1
CheckedDiv(a, b) ==
    IF b = 0 \/ (a = MinI32 /\ b = -1) THEN [some |-> FALSE]
    ELSE [some |-> TRUE, value |-> TruncDiv(a, b)]

Last(s) == s[Len(s)]
Front(s) == SubSeq(s, 1, Len(s) - 1)

(***************************************************************************)
(* Instructions (parser.rs:5-30).  A label is the sequence of its           *)
(* characters, each " " or "\t".                                            *)
(***************************************************************************)
Push(n) == [op |-> "Push", arg |-> n]
Copy(n) == [op |-> "Copy", arg |-> n]
Slide(n) == [op |-> "Slide", arg |-> n]
MarkLocation(l) == [op |-> "MarkLocation", label |-> l]
Call(l) == [op |-> "Call", label |-> l]
Jump(l) == [op |-> "Jump", label |-> l]
JumpIfZero(l) == [op |-> "JumpIfZero", label |-> l]
JumpIfNegative(l) == [op |-> "JumpIfNegative", label |-> l]
Duplicate == [op |-> "Duplicate"]
Swap == [op |-> "Swap"]
Discard == [op |-> "Discard"]
Add == [op |-> "Add"]
Substract == [op |-> "Substract"]
Multiply == [op |-> "Multiply"]
Divide == [op |-> "Divide"]
Modulo == [op |-> "Modulo"]
HeapStore == [op |-> "HeapStore"]
HeapRetrieve == [op |-> "HeapRetrieve"]
EndSubroutine == [op |-> "EndSubroutine"]
EndProgram == [op |-> "EndProgram"]
OutputChar == [op |-> "OutputChar"]
OutputNumber == [op |-> "OutputNumber"]
ReadChar == [op |-> "ReadChar"]
ReadNumber == [op |-> "ReadNumber"]

(***************************************************************************)
(* The programs and the console inputs the VM is run on.                   *)
(***************************************************************************)
\* the heap size of VM::new (interpreter.rs:17)
DefaultHeapSize == 1024

PushVals == {-1, 0, HeapSize}
VMLabels == {<<" ">>, <<"\t">>}
InstrSet ==
    {Push(n) : n \in PushVals}
    \cup {Copy(0), Slide(0)}
    \cup {Duplicate, Swap, Discard, Add, Substract, Multiply, Divide, Modulo,
          HeapStore, HeapRetrieve, EndSubroutine, EndProgram,
          OutputChar, OutputNumber, ReadChar, ReadNumber}
    \cup {MarkLocation(l) : l \in VMLabels} \cup {Call(l) : l \in VMLabels}
    \cup {Jump(l) : l \in VMLabels} \cup {JumpIfZero(l) : l \in VMLabels}
    \cup {JumpIfNegative(l) : l \in VMLabels}
\* the programs the specification's examples name
ExamplePrograms ==
    { <<Push(3), Push(4), Add>>,
      <<Push(5), Push(0), Divide>>,
      <<Call(<<" ">>), Push(0), EndProgram, MarkLocation(<<" ">>), EndSubroutine>> }
Programs == UNION {[1..n -> InstrSet] : n \in 0..MaxProg} \cup ExamplePrograms
\* the programs run on the heap of VM::new: they reach its last cell and the
\* first address past it
DefaultHeapPrograms ==
    { <<Push(DefaultHeapSize - 1), Push(-1), HeapStore>>,
      <<Push(DefaultHeapSize), Push(-1), HeapStore>>,
      <<Push(DefaultHeapSize - 1), Duplicate, Duplicate, HeapStore, HeapRetrieve>>,
      <<Push(DefaultHeapSize), HeapRetrieve>> }

\* what console::Term::read_char returns: Ok(char) or Err
ReadCharResults == {[ok |-> TRUE, chr |-> 65], [ok |-> FALSE]}
\* what stdin().read_line returns: Ok with the line read ("" at end of file) or Err
ReadLineResults ==
    {[ok |-> FALSE]}
    \cup {[ok |-> TRUE, line |-> l] : l \in
            { <<>>,
              <<"x", "\n">>,
              <<" ", "7", "\n">>,
              <<"-", "3", "\n">>,
              <<"2", "1", "4", "7", "4", "8", "3", "6", "4", "7", "\n">>,
              <<"2", "1", "4", "7", "4", "8", "3", "6", "4", "8", "\n">>,
              <<"-", "2", "1", "4", "7", "4", "8", "3", "6", "4", "8", "\n">> }}

(***************************************************************************)
(* VM helpers (interpreter.rs:172-213).                                    *)
(***************************************************************************)
HeapOfSize(n) == [a \in 1..n |-> 0]

\* faulty variant of GetHeap: an address out of range is clamped into the heap
GetHeapClamped(hp, address) ==
    IF address < 0 THEN [ok |-> TRUE, value |-> hp[1]]
    ELSE IF address >= Len(hp) THEN [ok |-> TRUE, value |-> hp[Len(hp)]]
    ELSE [ok |-> TRUE, value |-> hp[address + 1]]

PopStack(stk) ==
    IF stk = <<>>
    THEN [ok |-> FALSE, error |-> <<"empty stack during pop">>, stack |-> stk]
    ELSE [ok |-> TRUE, value |-> Last(stk), stack |-> Front(stk)]

PeekStack(stk) ==
    IF stk = <<>>
    THEN [ok |-> FALSE, error |-> <<"empty stack during peek">>]
    ELSE [ok |-> TRUE, value |-> Last(stk)]

LookupLabel(label) ==
    IF label \in DOMAIN labels
    THEN [ok |-> TRUE, ip |-> labels[label]]
    ELSE [ok |-> FALSE, error |-> <<"label not found">>]

GetHeap(hp, address) ==
    IF address < 0 THEN [ok |-> FALSE, error |-> <<"invalid address">>]
    ELSE IF address >= Len(hp) THEN [ok |-> FALSE, error |-> <<"heap overflow">>]
    ELSE [ok |-> TRUE, value |-> hp[address + 1]]

\* faulty variant of StoreHeap: an address out of range is clamped into the heap
StoreHeapClamped(hp, address, value) ==
    IF address < 0 THEN [ok |-> TRUE, heap |-> [hp EXCEPT ![1] = value]]
    ELSE IF address >= Len(hp) THEN [ok |-> TRUE, heap |-> [hp EXCEPT ![Len(hp)] = value]]
    ELSE [ok |-> TRUE, heap |-> [hp EXCEPT ![address + 1] = value]]

StoreHeap(hp, address, value) ==
    IF address < 0 THEN [ok |-> FALSE, error |-> <<"invalid address">>, heap |-> hp]
    ELSE IF address >= Len(hp) THEN [ok |-> FALSE, error |-> <<"heap overflow">>, heap |-> hp]
    ELSE [ok |-> TRUE, heap |-> [hp EXCEPT ![address + 1] = value]]

\* faulty variant of Insert: a key already present keeps its value
InsertKeepsFirst(map, key, value) ==
    [k \in DOMAIN map \cup {key} |-> IF k \in DOMAIN map THEN map[k] ELSE value]

\* HashMap::insert
Insert(map, key, value) ==
    [k \in DOMAIN map \cup {key} |-> IF k = key THEN value ELSE map[k]]

\* the scan of execute: index i of every MarkLocation, later ones overwrite
RECURSIVE ScanLabels(_, _, _)
ScanLabels(instrs, i, map) ==
    IF i >= Len(instrs) THEN map
    ELSE ScanLabels(instrs, i + 1,
                    IF instrs[i + 1].op = "MarkLocation"
                    THEN Insert(map, instrs[i + 1].label, i)
                    ELSE map)

\* faulty variant of Fetch: past the end, the index wraps around
FetchWrapsAround ==
    IF instructions = <<>> THEN [some |-> FALSE]
    ELSE [some |-> TRUE,
          instr |-> instructions[(instruction_ptr % Len(instructions)) + 1]]

\* instructions.get(self.instruction_ptr)
Fetch ==
    IF instruction_ptr < Len(instructions)
    THEN [some |-> TRUE, instr |-> instructions[instruction_ptr + 1]]
    ELSE [some |-> FALSE]

\* Display of an i32 (print!("{element}")), as code points
RECURSIVE NegDigits(_)
NegDigits(n) ==
    IF n > -10 THEN <<48 - n>>
    ELSE Append(NegDigits(TruncDiv(n, 10)), 48 - TruncRem(n, 10))

Decimal(n) == IF n < 0 THEN <<45>> \o NegDigits(n) ELSE NegDigits(-n)

\* str::trim and <i32 as FromStr>::from_str on the line read
IsSpaceChar(c) == c \in {" ", "\t", "\n", "\r"}

RECURSIVE TrimStart(_)
TrimStart(s) == IF s # <<>> /\ IsSpaceChar(s[1]) THEN TrimStart(Tail(s)) ELSE s

RECURSIVE TrimEnd(_)
TrimEnd(s) == IF s # <<>> /\ IsSpaceChar(Last(s)) THEN TrimEnd(Front(s)) ELSE s

Trim(s) == TrimEnd(TrimStart(s))

DigitValue ==
    ("0" :> 0) @@ ("1" :> 1) @@ ("2" :> 2) @@ ("3" :> 3) @@ ("4" :> 4) @@
    ("5" :> 5) @@ ("6" :> 6) @@ ("7" :> 7) @@ ("8" :> 8) @@ ("9" :> 9)

\* the digits are accumulated with checked arithmetic, negatively after a "-"
RECURSIVE ParseDigits(_, _, _)
ParseDigits(s, acc, negative) ==
    IF s = <<>> THEN [ok |-> TRUE, value |-> acc]
    ELSE IF s[1] \notin DOMAIN DigitValue THEN [ok |-> FALSE]
    ELSE IF MulOverflows(acc, 10) THEN [ok |-> FALSE]
    ELSE LET d == DigitValue[s[1]]
             m == acc * 10
         IN  IF negative
             THEN IF SubOverflows(m, d) THEN [ok |-> FALSE]
                  ELSE ParseDigits(Tail(s), m - d, negative)
             ELSE IF AddOverflows(m, d) THEN [ok |-> FALSE]
                  ELSE ParseDigits(Tail(s), m + d, negative)

ParseI32(s) ==
    IF s = <<>> THEN [ok |-> FALSE]
    ELSE IF s[1] \in {"+", "-"}
    THEN IF Len(s) = 1 THEN [ok |-> FALSE] ELSE ParseDigits(Tail(s), 0, s[1] = "-")
    ELSE ParseDigits(s, 0, FALSE)

(***************************************************************************)
(* The arms of the match of VM::execute (interpreter.rs:43-166).  Each     *)
(* yields the machine after the arm: status "running" when the arm ran to   *)
(* its end (the loop then adds 1 to ip), "ok" for the break of EndProgram,  *)
(* "error" for a `?` that returned Err, "panic" for a panic.                *)
(* `checks` says whether the build has overflow checks (debug) or wraps.    *)
(***************************************************************************)
Cur ==
    [status |-> "running", error |-> <<>>, stack |-> stack, heap |-> heap,
     ip |-> instruction_ptr, printed |-> printed]

Err(msg, stk) == [Cur EXCEPT !.status = "error", !.error = msg, !.stack = stk]

Panic(msg, stk) == [Cur EXCEPT !.status = "panic", !.error = msg, !.stack = stk]

PushArm(number) == [Cur EXCEPT !.stack = Append(stack, number)]

DuplicateArm ==
    LET element == PeekStack(stack)
    IN  IF ~element.ok THEN Err(element.error, stack)
        ELSE [Cur EXCEPT !.stack = Append(stack, element.value)]

CopyArm == Panic(<<"not implemented: copy">>, stack)

SlideArm == Panic(<<"not implemented: slide">>, stack)

SwapArm(checks) ==
    LET stack_len == Len(stack)
    IN  IF stack_len < 2
        THEN Panic(IF checks THEN <<"attempt to subtract with overflow">>
                   ELSE <<"index out of bounds">>, stack)
        ELSE [Cur EXCEPT !.stack = [stack EXCEPT ![stack_len] = stack[stack_len - 1],
                                                 ![stack_len - 1] = stack[stack_len]]]

DiscardArm ==
    LET popped == PopStack(stack)
    IN  IF ~popped.ok THEN Err(popped.error, popped.stack)
        ELSE [Cur EXCEPT !.stack = popped.stack]

AddArm(checks) ==
    LET left == PopStack(stack)
    IN  IF ~left.ok THEN Err(left.error, left.stack)
        ELSE LET right == PopStack(left.stack)
             IN  IF ~right.ok THEN Err(right.error, right.stack)
                 ELSE IF checks /\ AddOverflows(left.value, right.value)
                 THEN Panic(<<"attempt to add with overflow">>, right.stack)
                 ELSE [Cur EXCEPT !.stack =
                          Append(right.stack, WrappingAdd(left.value, right.value))]

\* faulty variant of SubstractArm: the operands are exchanged (right - left)
SubstractArmSwapped(checks) ==
    LET left == PopStack(stack)
    IN  IF ~left.ok THEN Err(left.error, left.stack)
        ELSE LET right == PopStack(left.stack)
             IN  IF ~right.ok THEN Err(right.error, right.stack)
                 ELSE IF checks /\ SubOverflows(right.value, left.value)
                 THEN Panic(<<"attempt to subtract with overflow">>, right.stack)
                 ELSE [Cur EXCEPT !.stack =
                          Append(right.stack, WrappingSub(right.value, left.value))]

SubstractArm(checks) ==
    LET left == PopStack(stack)
    IN  IF ~left.ok THEN Err(left.error, left.stack)
        ELSE LET right == PopStack(left.stack)
             IN  IF ~right.ok THEN Err(right.error, right.stack)
                 ELSE IF checks /\ SubOverflows(left.value, right.value)
                 THEN Panic(<<"attempt to subtract with overflow">>, right.stack)
                 ELSE [Cur EXCEPT !.stack =
                          Append(right.stack, WrappingSub(left.value, right.value))]

MultiplyArm(checks) ==
    LET left == PopStack(stack)
    IN  IF ~left.ok THEN Err(left.error, left.stack)
        ELSE LET right == PopStack(left.stack)
             IN  IF ~right.ok THEN Err(right.error, right.stack)
                 ELSE IF checks /\ MulOverflows(left.value, right.value)
                 THEN Panic(<<"attempt to multiply with overflow">>, right.stack)
                 ELSE [Cur EXCEPT !.stack =
                          Append(right.stack, WrappingMul(left.value, right.value))]

DivideArm ==
    LET left == PopStack(stack)
    IN  IF ~left.ok THEN Err(left.error, left.stack)
        ELSE LET right == PopStack(left.stack)
             IN  IF ~right.ok THEN Err(right.error, right.stack)
                 ELSE LET quotient == CheckedDiv(left.value, right.value)
                      IN  IF ~quotient.some
                          THEN Err(<<"trying to divide by zero", left.value>>, right.stack)
                          ELSE [Cur EXCEPT !.stack = Append(right.stack, quotient.value)]

ModuloArm ==
    LET left == PopStack(stack)
    IN  IF ~left.ok THEN Err(left.error, left.stack)
        ELSE LET right == PopStack(left.stack)
             IN  IF ~right.ok THEN Err(right.error, right.stack)
                 ELSE IF right.value = 0
                 THEN Panic(<<"attempt to calculate the remainder with a divisor of zero">>,
                            right.stack)
                 ELSE IF left.value = MinI32 /\ right.value = -1
                 THEN Panic(<<"attempt to calculate the remainder with overflow">>,
                            right.stack)
                 ELSE [Cur EXCEPT !.stack =
                          Append(right.stack, TruncRem(left.value, right.value))]

HeapStoreArm ==
    LET value == PopStack(stack)
    IN  IF ~value.ok THEN Err(value.error, value.stack)
        ELSE LET address == PopStack(value.stack)
             IN  IF ~address.ok THEN Err(address.error, address.stack)
                 ELSE LET stored == StoreHeap(heap, address.value, value.value)
                      IN  IF ~stored.ok
                          THEN [Err(stored.error, address.stack) EXCEPT !.heap = stored.heap]
                          ELSE [Cur EXCEPT !.stack = address.stack, !.heap = stored.heap]

HeapRetrieveArm ==
    LET address == PopStack(stack)
    IN  IF ~address.ok THEN Err(address.error, address.stack)
        ELSE LET value == GetHeap(heap, address.value)
             IN  IF ~value.ok THEN Err(value.error, address.stack)
                 ELSE [Cur EXCEPT !.stack = Append(address.stack, value.value)]

MarkLocationArm == Cur

\* faulty variant of CallArm: the index of the Call itself is pushed
CallArmPushesOwnIndex(label) ==
    LET pushed == Append(stack, instruction_ptr)
        target == LookupLabel(label)
    IN  IF ~target.ok THEN Err(target.error, pushed)
        ELSE [Cur EXCEPT !.stack = pushed, !.ip = target.ip]

CallArm(label) ==
    LET pushed == Append(stack, instruction_ptr + 1)
        target == LookupLabel(label)
    IN  IF ~target.ok THEN Err(target.error, pushed)
        ELSE [Cur EXCEPT !.stack = pushed, !.ip = target.ip]

JumpArm(label) ==
    LET target == LookupLabel(label)
    IN  IF ~target.ok THEN Err(target.error, stack)
        ELSE [Cur EXCEPT !.ip = target.ip]

\* faulty variant of JumpIfZeroArm: the top is popped, not peeked
JumpIfZeroArmPops(label) ==
    LET top == PopStack(stack)
    IN  IF ~top.ok THEN Err(top.error, stack)
        ELSE IF top.value = 0
             THEN [JumpArm(label) EXCEPT !.stack = top.stack]
        ELSE [Cur EXCEPT !.stack = top.stack]

JumpIfZeroArm(label) ==
    LET top == PeekStack(stack)
    IN  IF ~top.ok THEN Err(top.error, stack)
        ELSE IF top.value = 0 THEN JumpArm(label)
        ELSE Cur

JumpIfNegativeArm(label) ==
    LET top == PeekStack(stack)
    IN  IF ~top.ok THEN Err(top.error, stack)
        ELSE IF top.value < 0 THEN JumpArm(label)
        ELSE Cur

\* faulty variant of EndSubroutineArm: the increment of the loop is allowed for
EndSubroutineArmBacksUp ==
    LET addr == PopStack(stack)
    IN  IF ~addr.ok THEN Err(addr.error, addr.stack)
        ELSE IF addr.value < 1 THEN Err(<<"invalid addr">>, addr.stack)
        ELSE [Cur EXCEPT !.stack = addr.stack, !.ip = addr.value - 1]

EndSubroutineArm ==
    LET addr == PopStack(stack)
    IN  IF ~addr.ok THEN Err(addr.error, addr.stack)
        ELSE IF addr.value < 0 THEN Err(<<"invalid addr">>, addr.stack)
        ELSE [Cur EXCEPT !.stack = addr.stack, !.ip = addr.value]

EndProgramArm == [Cur EXCEPT !.status = "ok"]

\* char::from_u32: no surrogate, at most 0x10FFFF
IsScalarValue(n) == n >= 0 /\ n <= 1114111 /\ ~(n >= 55296 /\ n <= 57343)

OutputCharArm ==
    LET element == PopStack(stack)
    IN  IF ~element.ok THEN Err(element.error, element.stack)
        ELSE IF element.value < 0
        THEN Err(<<"invalid character in stack">>, element.stack)
        ELSE IF ~IsScalarValue(element.value)
        THEN Err(<<"invalid character">>, element.stack)
        ELSE [Cur EXCEPT !.stack = element.stack,
                         !.printed = Append(printed, <<element.value>>)]

OutputNumberArm ==
    LET element == PopStack(stack)
    IN  IF ~element.ok THEN Err(element.error, element.stack)
        ELSE [Cur EXCEPT !.stack = element.stack,
                         !.printed = Append(printed, Decimal(element.value))]

ReadCharArm(read) ==
    IF ~read.ok THEN Err(<<"reading a character">>, stack)
    ELSE [Cur EXCEPT !.stack = Append(stack, read.chr)]

ReadNumberArm(read) ==
    IF ~read.ok THEN Err(<<"reading line">>, stack)
    ELSE LET number == ParseI32(Trim(read.line))
         IN  IF ~number.ok THEN Err(<<"parsing line to number">>, stack)
             ELSE [Cur EXCEPT !.stack = Append(stack, number.value)]

(***************************************************************************)
(* History: pending_calls lists, for every return address a Call pushed     *)
(* and no instruction has popped or moved since, the index of that Call     *)
(* (site) and the stack position of the address (pos, 1 = bottom).          *)
(***************************************************************************)
Touched(op) ==
    CASE op \in {"Add", "Substract", "Multiply", "Divide", "Modulo",
                 "HeapStore", "Swap"} -> 2
      [] op \in {"Discard", "HeapRetrieve", "EndSubroutine",
                 "OutputChar", "OutputNumber"} -> 1
      [] OTHER -> 0

CallsAfter(instr) ==
    LET untouched == Len(stack) - Touched(instr.op)
        kept == SelectSeq(pending_calls, LAMBDA e : e.pos <= untouched)
    IN  IF instr.op = "Call"
        THEN Append(kept, [site |-> instruction_ptr, pos |-> Len(stack) + 1])
        ELSE kept

(***************************************************************************)
(* One iteration of the loop of VM::execute (interpreter.rs:36-169): the   *)
(* fetch, the arm, and `self.instruction_ptr += 1` when the arm ran to its  *)
(* end.  The guards bound the stack, the print! calls and ip.               *)
(***************************************************************************)
Fetched(op) == vm_status = "running" /\ Fetch.some /\ Fetch.instr.op = op

Step(r) ==
    /\ Len(r.stack) <= MaxStack
    /\ Len(r.printed) <= MaxPrinted
    /\ r.ip < MaxI32
    /\ vm_status' = r.status
    /\ vm_error' = r.error
    /\ stack' = r.stack
    /\ heap' = r.heap
    /\ printed' = r.printed
    /\ instruction_ptr' = IF r.status = "running" THEN r.ip + 1 ELSE r.ip
    /\ pending_calls' = CallsAfter(Fetch.instr)
    /\ UNCHANGED <<instructions, labels, report>>
    /\ UNCHANGED parserVars
    /\ UNCHANGED lexerVars

\* interpreter.rs:30-34
BuildLabels ==
    /\ vm_status = "new"
    /\ labels' = ScanLabels(instructions, 0, labels)
    /\ vm_status' = "running"
    /\ UNCHANGED <<instructions, instruction_ptr, stack, heap, vm_error, printed,
                   report, pending_calls>>
    /\ UNCHANGED parserVars
    /\ UNCHANGED lexerVars

\* faulty variant of NoMoreInstructions: running off the end is a success
NoMoreInstructionsSucceeds ==
    /\ vm_status = "running"
    /\ ~Fetch.some
    /\ vm_status' = "ok"
    /\ UNCHANGED <<instructions, instruction_ptr, stack, labels, heap, vm_error,
                   printed, report, pending_calls>>
    /\ UNCHANGED parserVars
    /\ UNCHANGED lexerVars

\* interpreter.rs:39-41
NoMoreInstructions ==
    /\ vm_status = "running"
    /\ ~Fetch.some
    /\ vm_status' = "error"
    /\ vm_error' = <<"no more instructions">>
    /\ UNCHANGED <<instructions, instruction_ptr, stack, labels, heap, printed,
                   report, pending_calls>>
    /\ UNCHANGED parserVars
    /\ UNCHANGED lexerVars

ExecPush == Fetched("Push") /\ Step(PushArm(Fetch.instr.arg))
ExecDuplicate == Fetched("Duplicate") /\ Step(DuplicateArm)
ExecCopy == Fetched("Copy") /\ Step(CopyArm)
ExecSwap == Fetched("Swap") /\ \E checks \in BOOLEAN : Step(SwapArm(checks))
ExecDiscard == Fetched("Discard") /\ Step(DiscardArm)
ExecSlide == Fetched("Slide") /\ Step(SlideArm)
ExecAdd == Fetched("Add") /\ \E checks \in BOOLEAN : Step(AddArm(checks))
ExecSubstract == Fetched("Substract") /\ \E checks \in BOOLEAN : Step(SubstractArm(checks))
ExecMultiply == Fetched("Multiply") /\ \E checks \in BOOLEAN : Step(MultiplyArm(checks))
ExecDivide == Fetched("Divide") /\ Step(DivideArm)
ExecModulo == Fetched("Modulo") /\ Step(ModuloArm)
ExecHeapStore == Fetched("HeapStore") /\ Step(HeapStoreArm)
ExecHeapRetrieve == Fetched("HeapRetrieve") /\ Step(HeapRetrieveArm)
ExecMarkLocation == Fetched("MarkLocation") /\ Step(MarkLocationArm)
ExecCall == Fetched("Call") /\ Step(CallArm(Fetch.instr.label))
ExecJump == Fetched("Jump") /\ Step(JumpArm(Fetch.instr.label))
ExecJumpIfZero == Fetched("JumpIfZero") /\ Step(JumpIfZeroArm(Fetch.instr.label))
ExecJumpIfNegative ==
    Fetched("JumpIfNegative") /\ Step(JumpIfNegativeArm(Fetch.instr.label))
ExecEndSubroutine == Fetched("EndSubroutine") /\ Step(EndSubroutineArm)
ExecEndProgram == Fetched("EndProgram") /\ Step(EndProgramArm)
ExecOutputChar == Fetched("OutputChar") /\ Step(OutputCharArm)
ExecOutputNumber == Fetched("OutputNumber") /\ Step(OutputNumberArm)
ExecReadChar == Fetched("ReadChar") /\ \E read \in ReadCharResults : Step(ReadCharArm(read))
ExecReadNumber ==
    Fetched("ReadNumber") /\ \E read \in ReadLineResults : Step(ReadNumberArm(read))

\* main.rs:19-23: after Err, main prints the error, the stack and the heap
MainReport ==
    /\ vm_status = "error"
    /\ report = <<>>
    /\ report' = <<vm_error, stack, heap>>
    /\ UNCHANGED <<instructions, instruction_ptr, stack, labels, heap, vm_status,
                   vm_error, printed, pending_calls>>
    /\ UNCHANGED parserVars
    /\ UNCHANGED lexerVars

ParserIdle ==
    /\ input = <<>>
    /\ current = 0
    /\ output = <<>>
    /\ parse_status = "idle"
    /\ parse_error = <<>>

\* VM::with_heap_size(HeapSize), about to execute one of Programs, or
\* VM::new(), about to execute one of DefaultHeapPrograms
InitVM ==
    /\ \/ instructions \in Programs /\ heap = HeapOfSize(HeapSize)
       \/ instructions \in DefaultHeapPrograms /\ heap = HeapOfSize(DefaultHeapSize)
    /\ instruction_ptr = 0
    /\ stack = <<>>
    /\ labels = <<>>
    /\ vm_status = "new"
    /\ vm_error = <<>>
    /\ printed = <<>>
    /\ report = <<>>
    /\ pending_calls = <<>>
    /\ ParserIdle
    /\ LexerAbsent

NextVM ==
    \/ BuildLabels
    \/ NoMoreInstructions
    \/ ExecPush
    \/ ExecDuplicate
    \/ ExecCopy
    \/ ExecSwap
    \/ ExecDiscard
    \/ ExecSlide
    \/ ExecAdd
    \/ ExecSubstract
    \/ ExecMultiply
    \/ ExecDivide
    \/ ExecModulo
    \/ ExecHeapStore
    \/ ExecHeapRetrieve
    \/ ExecMarkLocation
    \/ ExecCall
    \/ ExecJump
    \/ ExecJumpIfZero
    \/ ExecJumpIfNegative
    \/ ExecEndSubroutine
    \/ ExecEndProgram
    \/ ExecOutputChar
    \/ ExecOutputNumber
    \/ ExecReadChar
    \/ ExecReadNumber
    \/ MainReport

SpecVM == InitVM /\ [][NextVM]_vars

(***************************************************************************)
(* Parser (parser.rs:39-208).  `toks` is Parser.input and `cur` is          *)
(* Parser.current before the call; every result carries `current` after.    *)
(* status "ok" is Ok(..), "err" is a bail!, "panic" is the index out of     *)
(* bounds of `&self.input[self.current - 1]` in advance.                    *)
(***************************************************************************)
Tokens == {"Space", "Tab", "LineFeed"}

\* Parser::advance: the token read, "none" when the index is out of bounds
Advance(toks, cur) == IF cur < Len(toks) THEN toks[cur + 1] ELSE "none"

IsAtEnd(toks, cur) == cur >= Len(toks)

Done(instr, cur) == [status |-> "ok", instr |-> instr, current |-> cur]

Bail(msg, cur) == [status |-> "err", error |-> msg, current |-> cur]

OutOfBounds(cur) ==
    [status |-> "panic", error |-> <<"index out of bounds">>, current |-> cur]

\* `value <<= 1` on an i32: the top bit is shifted out
ShiftLeftOne(value) == WrappingAdd(value, value)

\* faulty variant of AppendBit: for Tab, 1 is added before the shift
AppendBitAddFirst(value, token) ==
    IF token = "Tab" THEN ShiftLeftOne(WrappingAdd(value, 1)) ELSE ShiftLeftOne(value)

\* the token of a digit: Space appends 0, Tab appends 1
AppendBit(value, token) ==
    IF token = "Tab" THEN ShiftLeftOne(value) + 1 ELSE ShiftLeftOne(value)

\* `value * sign`
ApplySign(value, sign, checks, cur) ==
    IF value = MinI32 /\ sign = -1
    THEN IF checks
         THEN [status |-> "panic", error |-> <<"attempt to multiply with overflow">>,
               current |-> cur]
         ELSE [status |-> "ok", value |-> MinI32, current |-> cur]
    ELSE [status |-> "ok", value |-> value * sign, current |-> cur]

\* the loop of parse_number; `st` is its state, [current, value]
RECURSIVE NumberLoop(_, _, _, _)
NumberLoop(toks, st, sign, checks) ==
    LET token == Advance(toks, st.current)
    IN  IF token = "none" THEN OutOfBounds(st.current + 1)
        ELSE IF token = "LineFeed" THEN ApplySign(st.value, sign, checks, st.current + 1)
        ELSE NumberLoop(toks, [current |-> st.current + 1,
                               value |-> AppendBit(st.value, token)], sign, checks)

SignOf(token) == IF token = "Space" THEN 1 ELSE -1

ParseNumber(toks, cur, checks) ==
    LET token == Advance(toks, cur)
    IN  IF token = "none" THEN OutOfBounds(cur + 1)
        ELSE IF token = "LineFeed"
        THEN Bail(<<"invalid sign specifier", "LineFeed">>, cur + 1)
        ELSE NumberLoop(toks, [current |-> cur + 1, value |-> 0], SignOf(token), checks)

\* faulty variant of LabelChar: every token becomes a space
LabelCharAllSpaces(token) == " "

LabelChar(token) == IF token = "Space" THEN " " ELSE "\t"

\* the loop of parse_label; `st` is its state, [current, label]
RECURSIVE LabelLoop(_, _)
LabelLoop(toks, st) ==
    LET token == Advance(toks, st.current)
    IN  IF token = "none" THEN OutOfBounds(st.current + 1)
        ELSE IF token = "LineFeed"
        THEN [status |-> "ok", label |-> st.label, current |-> st.current + 1]
        ELSE LabelLoop(toks, [current |-> st.current + 1,
                              label |-> Append(st.label, LabelChar(token))])

ParseLabel(toks, cur) == LabelLoop(toks, [current |-> cur, label |-> <<>>])

\* an instruction built from a parsed operand; a failed operand is the result
WithNumber(number, Make(_)) ==
    IF number.status = "ok" THEN Done(Make(number.value), number.current) ELSE number

WithLabel(label, Make(_)) ==
    IF label.status = "ok" THEN Done(Make(label.label), label.current) ELSE label

ParseStackManipulation(toks, cur, checks) ==
    LET first == Advance(toks, cur)
        second == Advance(toks, cur + 1)
    IN  IF first = "none" THEN OutOfBounds(cur + 1)
        ELSE IF first = "Space" THEN WithNumber(ParseNumber(toks, cur + 1, checks), Push)
        ELSE IF second = "none" THEN OutOfBounds(cur + 2)
        ELSE IF first = "Tab"
        THEN CASE second = "Space" -> WithNumber(ParseNumber(toks, cur + 2, checks), Copy)
               [] second = "LineFeed" -> WithNumber(ParseNumber(toks, cur + 2, checks), Slide)
               [] OTHER -> Bail(<<"invalid stack manipulation instruction">>, cur + 2)
        ELSE CASE second = "Tab" -> Done(Swap, cur + 2)
               [] second = "LineFeed" -> Done(Discard, cur + 2)
               [] second = "Space" -> Done(Duplicate, cur + 2)

ParseArithmetic(toks, cur) ==
    LET first == Advance(toks, cur)
        second == Advance(toks, cur + 1)
    IN  IF first = "none" THEN OutOfBounds(cur + 1)
        ELSE IF first = "LineFeed" THEN Bail(<<"invalid arithmetic instruction">>, cur + 1)
        ELSE IF second = "none" THEN OutOfBounds(cur + 2)
        ELSE IF first = "Space"
        THEN CASE second = "Space" -> Done(Add, cur + 2)
               [] second = "Tab" -> Done(Substract, cur + 2)
               [] second = "LineFeed" -> Done(Multiply, cur + 2)
        ELSE CASE second = "Space" -> Done(Divide, cur + 2)
               [] second = "Tab" -> Done(Modulo, cur + 2)
               [] OTHER -> Bail(<<"invalid arithmetic instruction">>, cur + 2)

\* faulty variant of ParseHeapAccess: the two arms are exchanged
ParseHeapAccessSwapped(toks, cur) ==
    LET first == Advance(toks, cur)
    IN  CASE first = "none" -> OutOfBounds(cur + 1)
          [] first = "Space" -> Done(HeapRetrieve, cur + 1)
          [] first = "Tab" -> Done(HeapStore, cur + 1)
          [] OTHER -> Bail(<<"invalid heap instruction">>, cur + 1)

ParseHeapAccess(toks, cur) ==
    LET first == Advance(toks, cur)
    IN  CASE first = "none" -> OutOfBounds(cur + 1)
          [] first = "Space" -> Done(HeapStore, cur + 1)
          [] first = "Tab" -> Done(HeapRetrieve, cur + 1)
          [] OTHER -> Bail(<<"invalid heap instruction">>, cur + 1)

ParseFlowControl(toks, cur) ==
    LET first == Advance(toks, cur)
        second == Advance(toks, cur + 1)
    IN  IF first = "none" THEN OutOfBounds(cur + 1)
        ELSE IF second = "none" THEN OutOfBounds(cur + 2)
        ELSE IF first = "Space"
        THEN CASE second = "Space" -> WithLabel(ParseLabel(toks, cur + 2), MarkLocation)
               [] second = "Tab" -> WithLabel(ParseLabel(toks, cur + 2), Call)
               [] second = "LineFeed" -> WithLabel(ParseLabel(toks, cur + 2), Jump)
        ELSE IF first = "Tab"
        THEN CASE second = "Space" -> WithLabel(ParseLabel(toks, cur + 2), JumpIfZero)
               [] second = "Tab" -> WithLabel(ParseLabel(toks, cur + 2), JumpIfNegative)
               [] second = "LineFeed" -> Done(EndSubroutine, cur + 2)
        ELSE CASE second = "LineFeed" -> Done(EndProgram, cur + 2)
               [] OTHER -> Bail(<<"invalid flow control instruction">>, cur + 2)

ParseInputOutput(toks, cur) ==
    LET first == Advance(toks, cur)
        second == Advance(toks, cur + 1)
    IN  IF first = "none" THEN OutOfBounds(cur + 1)
        ELSE IF first = "LineFeed" THEN Bail(<<"invalid i/o instruction">>, cur + 1)
        ELSE IF second = "none" THEN OutOfBounds(cur + 2)
        ELSE IF first = "Space"
        THEN CASE second = "Space" -> Done(OutputChar, cur + 2)
               [] second = "Tab" -> Done(OutputNumber, cur + 2)
               [] OTHER -> Bail(<<"invalid i/o instruction">>, cur + 2)
        ELSE CASE second = "Space" -> Done(ReadChar, cur + 2)
               [] second = "Tab" -> Done(ReadNumber, cur + 2)
               [] OTHER -> Bail(<<"invalid i/o instruction">>, cur + 2)

\* the outer match of Parser::parse: the family the next tokens select
Family(toks, cur) ==
    LET first == Advance(toks, cur)
        second == Advance(toks, cur + 1)
    IN  CASE first = "Space" -> [family |-> "stack manipulation", current |-> cur + 1]
          [] first = "LineFeed" -> [family |-> "flow control", current |-> cur + 1]
          [] first = "Tab" /\ second = "Space" -> [family |-> "arithmetic", current |-> cur + 2]
          [] first = "Tab" /\ second = "Tab" -> [family |-> "heap access", current |-> cur + 2]
          [] first = "Tab" /\ second = "LineFeed" ->
                [family |-> "input output", current |-> cur + 2]
          [] OTHER -> [family |-> "none", current |-> cur + 2]

(***************************************************************************)
(* The encoding the grammar of parser.rs decodes: the selector of each      *)
(* instruction (the tokens of the match arms that lead to it), a number as  *)
(* sign, binary digits (most significant first) and LineFeed, a label as    *)
(* its Space/Tab tokens and LineFeed.  It builds the inputs of the parser.  *)
(***************************************************************************)
SelectorOf(op) ==
    CASE op = "Push" -> <<"Space", "Space">>
      [] op = "Duplicate" -> <<"Space", "LineFeed", "Space">>
      [] op = "Copy" -> <<"Space", "Tab", "Space">>
      [] op = "Swap" -> <<"Space", "LineFeed", "Tab">>
      [] op = "Discard" -> <<"Space", "LineFeed", "LineFeed">>
      [] op = "Slide" -> <<"Space", "Tab", "LineFeed">>
      [] op = "Add" -> <<"Tab", "Space", "Space", "Space">>
      [] op = "Substract" -> <<"Tab", "Space", "Space", "Tab">>
      [] op = "Multiply" -> <<"Tab", "Space", "Space", "LineFeed">>
      [] op = "Divide" -> <<"Tab", "Space", "Tab", "Space">>
      [] op = "Modulo" -> <<"Tab", "Space", "Tab", "Tab">>
      [] op = "HeapStore" -> <<"Tab", "Tab", "Space">>
      [] op = "HeapRetrieve" -> <<"Tab", "Tab", "Tab">>
      [] op = "MarkLocation" -> <<"LineFeed", "Space", "Space">>
      [] op = "Call" -> <<"LineFeed", "Space", "Tab">>
      [] op = "Jump" -> <<"LineFeed", "Space", "LineFeed">>
      [] op = "JumpIfZero" -> <<"LineFeed", "Tab", "Space">>
      [] op = "JumpIfNegative" -> <<"LineFeed", "Tab", "Tab">>
      [] op = "EndSubroutine" -> <<"LineFeed", "Tab", "LineFeed">>
      [] op = "EndProgram" -> <<"LineFeed", "LineFeed", "LineFeed">>
      [] op = "OutputChar" -> <<"Tab", "LineFeed", "Space", "Space">>
      [] op = "OutputNumber" -> <<"Tab", "LineFeed", "Space", "Tab">>
      [] op = "ReadChar" -> <<"Tab", "LineFeed", "Tab", "Space">>
      [] op = "ReadNumber" -> <<"Tab", "LineFeed", "Tab", "Tab">>

\* the binary digits of m >= 0, most significant first; none for 0
RECURSIVE Bits(_)
Bits(m) ==
    IF m = 0 THEN <<>>
    ELSE Append(Bits(m \div 2), IF m % 2 = 1 THEN "Tab" ELSE "Space")

\* n # MinI32
EncodeNumber(n) ==
    <<IF n >= 0 THEN "Space" ELSE "Tab">> \o Bits(AbsNotMin(n)) \o <<"LineFeed">>

EncodeLabel(l) ==
    [i \in 1..Len(l) |-> IF l[i] = " " THEN "Space" ELSE "Tab"] \o <<"LineFeed">>

Encode(instr) ==
    SelectorOf(instr.op) \o
        (IF instr.op \in {"Push", "Copy", "Slide"} THEN EncodeNumber(instr.arg)
         ELSE IF instr.op \in {"MarkLocation", "Call", "Jump", "JumpIfZero",
                               "JumpIfNegative"} THEN EncodeLabel(instr.label)
         ELSE <<>>)

RECURSIVE EncodeProgram(_)
EncodeProgram(p) ==
    IF p = <<>> THEN <<>> ELSE Encode(Head(p)) \o EncodeProgram(Tail(p))

SeqsUpTo(S, n) == UNION {[1..k -> S] : k \in 0..n}

(***************************************************************************)
(* The token sequences the parser is run on: every sequence of at most      *)
(* MaxTokens tokens, and longer ones built from samples.                    *)
(***************************************************************************)
NullaryInstrs ==
    {Duplicate, Swap, Discard, Add, Substract, Multiply, Divide, Modulo,
     HeapStore, HeapRetrieve, EndSubroutine, EndProgram,
     OutputChar, OutputNumber, ReadChar, ReadNumber}

NumSamples ==
    (-NumRange..NumRange)
    \cup {50, -50, 1073741823, 1073741824, -1073741824, MaxI32 - 1, MaxI32, -MaxI32}

LabelSamples == SeqsUpTo({" ", "\t"}, MaxLabel)

NumberInstrs == {Push(n) : n \in NumSamples} \cup {Copy(n) : n \in NumSamples}
                \cup {Slide(n) : n \in NumSamples}

LabelInstrs ==
    {MarkLocation(l) : l \in LabelSamples} \cup {Call(l) : l \in LabelSamples}
    \cup {Jump(l) : l \in LabelSamples} \cup {JumpIfZero(l) : l \in LabelSamples}
    \cup {JumpIfNegative(l) : l \in LabelSamples}

\* the instructions that are concatenated into longer inputs
SampleInstrs ==
    NullaryInstrs
    \cup {Push(0), Push(1), Push(-50), Copy(2), Slide(-1)}
    \cup {MarkLocation(<<>>), Call(<<" ", "\t">>), Jump(<<"\t">>),
          JumpIfZero(<<" ">>), JumpIfNegative(<<"\t", "\t">>)}

SamplePrograms == SeqsUpTo(SampleInstrs, MaxEncoded)

\* the inputs of the tests of parser.rs (lines 214-259)
TestTokens ==
    <<"Space", "Space", "Tab", "Tab", "Tab", "Space", "Space", "Tab", "Space", "LineFeed">>

\* a magnitude of 2^31: the digit 1 and 31 digits 0
Magnitude2Pow31 == <<"Tab">> \o [i \in 1..31 |-> "Space"] \o <<"LineFeed">>

\* inputs cut inside their last instruction
Truncations(toks) == {SubSeq(toks, 1, k) : k \in 1..(Len(toks) - 1)}

TruncatedInputs ==
    UNION {{EncodeProgram(p) \o t : t \in Truncations(Encode(i))} :
              p \in SeqsUpTo(SampleInstrs, 1),
              i \in SampleInstrs \cup {Push(MaxI32), MarkLocation(<<" ", "\t", " ">>)}}

\* the token combinations that select no instruction inside their family,
\* and the number literals whose sign token is LineFeed, after their selector
InvalidSelectors ==
    { <<"Space", "Tab", "Tab">>,
      <<"Tab", "Space", "LineFeed">>,
      <<"Tab", "Space", "Tab", "LineFeed">>,
      <<"Tab", "Tab", "LineFeed">>,
      <<"LineFeed", "LineFeed", "Space">>,
      <<"LineFeed", "LineFeed", "Tab">>,
      <<"Tab", "LineFeed", "LineFeed">>,
      <<"Tab", "LineFeed", "Space", "LineFeed">>,
      <<"Tab", "LineFeed", "Tab", "LineFeed">>,
      <<"Space", "Space", "LineFeed">>,
      <<"Space", "Tab", "Space", "LineFeed">>,
      <<"Space", "Tab", "LineFeed", "LineFeed">> }

\* the instructions decoded before an invalid selector
ValidPrefixes == SeqsUpTo(SampleInstrs, 1) \cup {<<Push(-50), Swap>>}

TokenInputs ==
    SeqsUpTo(Tokens, MaxTokens)
    \cup {EncodeProgram(p) \o b \o EncodeProgram(q) :
             p \in ValidPrefixes, b \in InvalidSelectors,
             q \in {<<>>, <<Swap>>, <<Push(1), EndProgram>>}}
    \cup {EncodeProgram(p) : p \in SamplePrograms}
    \cup {Encode(i) : i \in NumberInstrs \cup LabelInstrs}
    \cup {TestTokens, TestTokens \o <<"Space", "LineFeed", "Tab">>}
    \cup {<<"Space", "Space", "Space">> \o Magnitude2Pow31,
          <<"Space", "Space", "Tab">> \o Magnitude2Pow31}
    \cup TruncatedInputs

(***************************************************************************)
(* One iteration of the while loop of Parser::parse (parser.rs:57-71): the  *)
(* outer match, then the parse function of the family.                      *)
(***************************************************************************)
\* faulty variant of Commit: a bail! is dropped and the loop goes on
CommitSkipsErrors(r) ==
    /\ current' = r.current
    /\ IF r.status = "ok"
       THEN output' = Append(output, r.instr) /\ UNCHANGED <<parse_status, parse_error>>
       ELSE IF r.status = "err"
       THEN UNCHANGED <<output, parse_status, parse_error>>
       ELSE parse_status' = r.status /\ parse_error' = r.error /\ UNCHANGED output
    /\ UNCHANGED input
    /\ UNCHANGED vmVars
    /\ UNCHANGED lexerVars

Commit(r) ==
    /\ current' = r.current
    /\ IF r.status = "ok"
       THEN output' = Append(output, r.instr) /\ UNCHANGED <<parse_status, parse_error>>
       ELSE parse_status' = r.status /\ parse_error' = r.error /\ UNCHANGED output
    /\ UNCHANGED input
    /\ UNCHANGED vmVars
    /\ UNCHANGED lexerVars

Selected(family) ==
    /\ parse_status = "running"
    /\ ~IsAtEnd(input, current)
    /\ Family(input, current).family = family

StepStackManipulation ==
    /\ Selected("stack manipulation")
    /\ \E checks \in BOOLEAN :
          Commit(ParseStackManipulation(input, Family(input, current).current, checks))

StepArithmetic ==
    /\ Selected("arithmetic")
    /\ Commit(ParseArithmetic(input, Family(input, current).current))

StepHeapAccess ==
    /\ Selected("heap access")
    /\ Commit(ParseHeapAccess(input, Family(input, current).current))

StepFlowControl ==
    /\ Selected("flow control")
    /\ Commit(ParseFlowControl(input, Family(input, current).current))

StepInputOutput ==
    /\ Selected("input output")
    /\ Commit(ParseInputOutput(input, Family(input, current).current))

\* the second advance of the arm Token::Tab of parse, out of bounds
StepFamilyOutOfBounds ==
    /\ Selected("none")
    /\ Commit(OutOfBounds(Family(input, current).current))

\* is_at_end: parse returns Ok(())
ParseEnd ==
    /\ parse_status = "running"
    /\ IsAtEnd(input, current)
    /\ parse_status' = "ok"
    /\ UNCHANGED <<input, current, output, parse_error>>
    /\ UNCHANGED vmVars
    /\ UNCHANGED lexerVars

VMAbsent ==
    /\ instructions = <<>>
    /\ instruction_ptr = 0
    /\ stack = <<>>
    /\ labels = <<>>
    /\ heap = <<>>
    /\ vm_status = "absent"
    /\ vm_error = <<>>
    /\ printed = <<>>
    /\ report = <<>>
    /\ pending_calls = <<>>

\* Parser::new(tokens), about to parse one of TokenInputs
InitParser ==
    /\ input \in TokenInputs
    /\ current = 0
    /\ output = <<>>
    /\ parse_status = "running"
    /\ parse_error = <<>>
    /\ VMAbsent
    /\ LexerAbsent

NextParser ==
    \/ StepStackManipulation
    \/ StepArithmetic
    \/ StepHeapAccess
    \/ StepFlowControl
    \/ StepInputOutput
    \/ StepFamilyOutOfBounds
    \/ ParseEnd

SpecParser == InitParser /\ [][NextParser]_vars

(***************************************************************************)
(* Lexer::lex (lexer.rs:20-31): self.input.chars() yields the characters   *)
(* one by one; each passes filter and then map, and collect gathers the    *)
(* tokens once the characters are exhausted.                               *)
(***************************************************************************)
\* the closure given to filter (lexer.rs:23)
FilterKeepsTab(chr) == chr = " " \/ chr = "\t"

Filter(chr) == chr = " " \/ chr = "\n" \/ chr = "\t"

\* the closure given to map (lexer.rs:24-29); "none" is the panic! arm
MapChar(chr) ==
    CASE chr = " " -> "Space"
      [] chr = "\t" -> "Tab"
      [] chr = "\n" -> "LineFeed"
      [] OTHER -> "none"

\* the text of tests::simple (lexer.rs:40)
SimpleText ==
    <<"a", "a", " ", "\n", " ", " ", "c", "o", "m", "m", "e", "n", "t", " ",
      "\t", "\n", "\t">>

\* every text of up to MaxText characters among the three of the language, a
\* carriage return and a letter, and the text of the test
Texts == SeqsUpTo({" ", "\t", "\n", "\r", "a"}, MaxText) \cup {SimpleText}

\* the next character is rejected by filter
LexSkip ==
    /\ lex_status = "running"
    /\ chars_pos < Len(lexer_input)
    /\ ~Filter(lexer_input[chars_pos + 1])
    /\ chars_pos' = chars_pos + 1
    /\ UNCHANGED <<lexer_input, tokens, lex_status>>
    /\ UNCHANGED <<vmVars, parserVars>>

\* the next character passes filter and is mapped
LexMap ==
    /\ lex_status = "running"
    /\ chars_pos < Len(lexer_input)
    /\ Filter(lexer_input[chars_pos + 1])
    /\ chars_pos' = chars_pos + 1
    /\ LET token == MapChar(lexer_input[chars_pos + 1])
       IN  IF token = "none"
           THEN lex_status' = "panic" /\ UNCHANGED tokens
           ELSE tokens' = Append(tokens, token) /\ UNCHANGED lex_status
    /\ UNCHANGED lexer_input
    /\ UNCHANGED <<vmVars, parserVars>>

\* the characters are exhausted: collect returns the Vec<Token>
LexCollect ==
    /\ lex_status = "running"
    /\ chars_pos = Len(lexer_input)
    /\ lex_status' = "ok"
    /\ UNCHANGED <<lexer_input, chars_pos, tokens>>
    /\ UNCHANGED <<vmVars, parserVars>>

\* Lexer::new(text) for one of Texts, about to lex
InitLexer ==
    /\ lexer_input \in Texts
    /\ chars_pos = 0
    /\ tokens = <<>>
    /\ lex_status = "running"
    /\ VMAbsent
    /\ ParserIdle

NextLexer ==
    \/ LexSkip
    \/ LexMap
    \/ LexCollect

SpecLexer == InitLexer /\ [][NextLexer]_vars

(***************************************************************************)
(* Properties.                                                              *)
(***************************************************************************)
\* what the claims' examples run: execute has fetched and run the first
\* three instructions of a program that begins with `prefix`
BeginsWith(prefix) ==
    Len(instructions) >= Len(prefix) /\ SubSeq(instructions, 1, Len(prefix)) = prefix

RanThird ==
    \/ instruction_ptr > 2
    \/ instruction_ptr = 2 /\ vm_status \in {"ok", "error", "panic"}

\* C1: when an EndSubroutine pops the return address that the Call at index c
\* pushed, the next instruction fetched is the one at index c + 1.
C1_ReturnResumesAfterCall ==
    [][(/\ Fetched("EndSubroutine")
        /\ pending_calls # <<>>
        /\ Last(pending_calls).pos = Len(stack))
       => (/\ vm_status' = "running"
           /\ instruction_ptr' = Last(pending_calls).site + 1)]_vars

\* C2: Push(n), Push(0), Divide on an empty stack ends in the division-by-zero
\* error, with both operands popped: the stack is empty.
C2_PushPushDivideFails ==
    \A n \in PushVals \cup {5} :
        (BeginsWith(<<Push(n), Push(0), Divide>>) /\ RanThird)
        => (/\ vm_status = "error"
            /\ vm_error = <<"trying to divide by zero", 0>>
            /\ stack = <<>>)

\* C3: when the instruction pointer is outside the sequence, the next step is
\* the "no more instructions" error and nothing else changes; once execution
\* has failed, no further instruction runs.
C3_OutOfRangeFetchFails ==
    [][/\ (vm_status = "running" /\ instruction_ptr \notin 0..(Len(instructions) - 1))
          => (/\ vm_status' = "error"
              /\ vm_error' = <<"no more instructions">>
              /\ UNCHANGED <<instruction_ptr, stack, heap, printed>>)
       /\ vm_status = "error"
          => UNCHANGED <<vm_status, vm_error, instruction_ptr, stack, heap, printed>>]_vars

C3_Witness ==
    /\ vm_status = "error"
    /\ vm_error = <<"no more instructions">>
    /\ instruction_ptr > Len(instructions)
    /\ instructions # <<>>

\* C4: HeapStore with a popped address that is negative or at least the heap
\* size fails, and every heap cell keeps its value.
C4_HeapStoreOutOfRange ==
    [][(/\ Fetched("HeapStore")
        /\ Len(stack) >= 2
        /\ (stack[Len(stack) - 1] < 0 \/ stack[Len(stack) - 1] >= Len(heap)))
       => (vm_status' = "error" /\ heap' = heap)]_vars

C4_Witness ==
    /\ vm_status = "error"
    /\ vm_error = <<"heap overflow">>
    /\ Fetch.some
    /\ Fetch.instr.op = "HeapStore"
    /\ heap = HeapOfSize(HeapSize)

\* C5: a token sequence that ends inside an instruction makes parse end with
\* a decode error value (Err), not with success and not with an abort.
C5_TruncatedInputIsDecodeError ==
    (input \in TruncatedInputs /\ parse_status # "running") => parse_status = "err"

NumberEncodings == {<<Encode(i), i>> : i \in NumberInstrs}

\* C6: the literal of n (sign token, binary digits of |n| most significant
\* first, LineFeed) decodes to exactly n, for |n| <= 2^31 - 1.
C6_NumberLiteralDecodes ==
    \A e \in NumberEncodings :
        (input = e[1] /\ parse_status # "running")
        => (parse_status = "ok" /\ output = <<e[2]>>)

C6_Witness ==
    /\ parse_status = "ok"
    /\ input = <<"Space", "Space">> \o EncodeNumber(-MaxI32)
    /\ output = <<Push(-MaxI32)>>

\* C7: Add, Substract and Multiply pop left (the top) then right and push
\* left op right when it fits in 32 bits, leaving the stack one shorter;
\* Push(a), Push(b), Add leaves [a + b] and Push(a), Push(b), Substract [b - a].
C7_ArithmeticOperandOrder ==
    [][LET n == Len(stack)
           left == stack[n]
           right == stack[n - 1]
           rest == SubSeq(stack, 1, n - 2)
       IN  /\ (Fetched("Add") /\ n >= 2 /\ ~AddOverflows(left, right))
              => (vm_status' = "running" /\ stack' = Append(rest, left + right))
           /\ (Fetched("Substract") /\ n >= 2 /\ ~SubOverflows(left, right))
              => (vm_status' = "running" /\ stack' = Append(rest, left - right))
           /\ (Fetched("Multiply") /\ n >= 2 /\ ~MulOverflows(left, right))
              => (vm_status' = "running" /\ stack' = Append(rest, left * right))
           /\ \A a \in PushVals \cup {3}, b \in PushVals \cup {4} :
                /\ (BeginsWith(<<Push(a), Push(b), Add>>) /\ Fetched("Add")
                    /\ instruction_ptr = 2 /\ stack = <<a, b>>)
                   => stack' = <<a + b>>
                /\ (BeginsWith(<<Push(a), Push(b), Substract>>) /\ Fetched("Substract")
                    /\ instruction_ptr = 2 /\ stack = <<a, b>>)
                   => stack' = <<b - a>>]_vars

C7_Witness ==
    \/ /\ instructions = <<Push(3), Push(4), Add>>
       /\ instruction_ptr = 3
       /\ stack = <<7>>
    \/ /\ instructions = <<Push(-1), Push(0), Substract>>
       /\ instruction_ptr = 3
       /\ stack = <<1>>

SampleEncodings == {EncodeProgram(p) : p \in SamplePrograms}

SamplePairs == {<<EncodeProgram(p), p>> : p \in SamplePrograms}

\* C8: the concatenation of k instruction encodings decodes to exactly those
\* k instructions in order, each from its own tokens.
C8_ConcatenationDecodes ==
    input \in SampleEncodings
    => /\ parse_status \in {"running", "ok"}
       /\ EncodeProgram(output) = SubSeq(input, 1, current)
       /\ parse_status = "ok" => <<input, output>> \in SamplePairs

C8_Witness ==
    /\ parse_status = "ok"
    /\ input = TestTokens \o <<"Space", "LineFeed", "Tab">>
    /\ output = <<Push(-50), Swap>>

LabelTokenSamples == SeqsUpTo({"Space", "Tab"}, MaxLabel)

LabelText(toks) == [i \in 1..Len(toks) |-> IF toks[i] = "Space" THEN " " ELSE "\t"]

\* C9: a label literal decodes to the string of the same length in which each
\* Space is " " and each Tab is "\t"; two literals decode to equal strings
\* exactly when their token sequences are equal.
C9_LabelRoundTrip ==
    \A op \in {"MarkLocation", "Call", "Jump", "JumpIfZero", "JumpIfNegative"},
       t \in LabelTokenSamples :
        (input = SelectorOf(op) \o t \o <<"LineFeed">> /\ parse_status # "running")
        => /\ parse_status = "ok"
           /\ output = <<[op |-> op, label |-> LabelText(t)]>>
           /\ \A u \in LabelTokenSamples :
                (ParseLabel(u \o <<"LineFeed">>, 0).label = output[1].label) <=> (u = t)

C9_Witness ==
    /\ parse_status = "ok"
    /\ input = <<"LineFeed", "Space", "Space", "Tab", "Space", "LineFeed">>
    /\ output = <<MarkLocation(<<"\t", " ">>)>>

\* C10: Copy and Slide fail as an error returned by execute (Err), with the
\* stack and the heap as they were, so that main reports them.
C10_CopySlideReturnError ==
    [][(Fetched("Copy") \/ Fetched("Slide"))
       => (vm_status' = "error" /\ stack' = stack /\ heap' = heap)]_vars

\* the characters of the language among those of a text, in order
WhitespaceOf(txt) == SelectSeq(txt, LAMBDA c : c \in {" ", "\t", "\n"})

TokenNames == (" " :> "Space") @@ ("\t" :> "Tab") @@ ("\n" :> "LineFeed")

TokensOf(txt) == [i \in 1..Len(WhitespaceOf(txt)) |-> TokenNames[WhitespaceOf(txt)[i]]]

\* C11: lex returns the tokens of exactly the space, tab and newline
\* characters of the text, in their order; any other character produces no
\* token and leaves the tokens around it as they are.
C11_LexKeepsWhitespaceOnly ==
    /\ lex_status \in {"absent", "running", "ok"}
    /\ lex_status = "ok"
       => /\ tokens = TokensOf(lexer_input)
          /\ \A k \in 1..Len(lexer_input) :
                lexer_input[k] \notin {" ", "\t", "\n"}
                => tokens = TokensOf(SubSeq(lexer_input, 1, k - 1))
                            \o TokensOf(SubSeq(lexer_input, k + 1, Len(lexer_input)))

C11_Witness ==
    /\ lex_status = "ok"
    /\ lexer_input = SimpleText
    /\ tokens = <<"Space", "LineFeed", "Space", "Space", "Space", "Tab", "LineFeed", "Tab">>

\* C12: Swap with at least two values exchanges the top two and leaves every
\* other element and the length unchanged; with fewer than two it fails with
\* a runtime error (Err) and the stack is unchanged.
C12_SwapExchangesOrFails ==
    [][Fetched("Swap")
       => LET n == Len(stack)
          IN  IF n >= 2
              THEN /\ vm_status' = "running"
                   /\ Len(stack') = n
                   /\ stack'[n] = stack[n - 1]
                   /\ stack'[n - 1] = stack[n]
                   /\ \A k \in 1..(n - 2) : stack'[k] = stack[k]
              ELSE vm_status' = "error" /\ stack' = stack]_vars

\* the label of the fetched instruction is in the label table
LabelKnown == Fetch.instr.label \in DOMAIN labels

\* the top of the stack satisfies the predicate of the fetched conditional jump
Taken ==
    /\ stack # <<>>
    /\ \/ Fetch.instr.op = "JumpIfZero" /\ Last(stack) = 0
       \/ Fetch.instr.op = "JumpIfNegative" /\ Last(stack) < 0

\* C13 as stated: the conditional jumps never change the stack, jump when
\* the top satisfies the predicate and fall through otherwise, and fail if the
\* stack is empty or if the label is unknown.
C13_ConditionalJumpFailsOnUnknownLabel ==
    [][(Fetched("JumpIfZero") \/ Fetched("JumpIfNegative"))
       => /\ stack' = stack
          /\ (stack = <<>> \/ ~LabelKnown) => vm_status' = "error"
          /\ (Taken /\ LabelKnown)
             => (vm_status' = "running" /\ instruction_ptr' = labels[Fetch.instr.label] + 1)
          /\ (stack # <<>> /\ ~Taken /\ LabelKnown)
             => (vm_status' = "running" /\ instruction_ptr' = instruction_ptr + 1)]_vars

\* C13, amended: the conditional jumps never change the stack; they fail if
\* the stack is empty, or if the top satisfies the predicate and the label is
\* unknown; they jump to the label when the top satisfies the predicate and
\* fall through to the next instruction otherwise, whatever the label.
C13_ConditionalJumpPeeks ==
    [][(Fetched("JumpIfZero") \/ Fetched("JumpIfNegative"))
       => /\ stack' = stack
          /\ (stack = <<>> \/ (Taken /\ ~LabelKnown))
             => (vm_status' = "error" /\ instruction_ptr' = instruction_ptr)
          /\ (Taken /\ LabelKnown)
             => (vm_status' = "running" /\ instruction_ptr' = labels[Fetch.instr.label] + 1)
          /\ (stack # <<>> /\ ~Taken)
             => (vm_status' = "running" /\ instruction_ptr' = instruction_ptr + 1)]_vars

\* JumpIfNegative with an unknown label and a top of 0 has fallen through
C13_Witness ==
    /\ instructions = <<Push(0), JumpIfNegative(<<" ">>)>>
    /\ instruction_ptr = 2
    /\ stack = <<0>>
    /\ vm_status = "running"

\* the indexes at which a MarkLocation with the label occurs
MarksOf(label) ==
    {i \in 0..(Len(instructions) - 1) : instructions[i + 1] = MarkLocation(label)}

Highest(S) == CHOOSE i \in S : \A j \in S : j <= i

\* the fetched instruction transfers control to its label
Jumps ==
    \/ Fetched("Jump")
    \/ Fetched("Call")
    \/ (Fetched("JumpIfZero") \/ Fetched("JumpIfNegative")) /\ Taken

\* C14: every Jump, Call or taken conditional jump resolves its label to the
\* highest index at which a MarkLocation with that label occurs, before or
\* after the jumping instruction, and to the same index every time: the
\* pointer is set to that index and the loop's increment follows.
C14_LastDeclarationWins ==
    [][/\ (Jumps /\ MarksOf(Fetch.instr.label) # {})
          => /\ vm_status' = "running"
             /\ instruction_ptr' = Highest(MarksOf(Fetch.instr.label)) + 1
       /\ (Jumps /\ MarksOf(Fetch.instr.label) = {}) => vm_status' = "error"
       /\ vm_status = "running" => labels' = labels]_vars

\* a forward jump over the first of two declarations of the label
C14_Witness ==
    /\ instructions = <<MarkLocation(<<" ">>), Jump(<<" ">>), MarkLocation(<<" ">>)>>
    /\ instruction_ptr = 3
    /\ vm_status = "running"

C16_ReturnSetsPointerThenIncrements ==
    [][Fetched("EndSubroutine")
       => IF stack # <<>> /\ Last(stack) >= 0
          THEN /\ vm_status' = "running"
               /\ stack' = Front(stack)
               /\ instruction_ptr' = Last(stack) + 1
          ELSE /\ vm_status' = "error"
               /\ instruction_ptr' = instruction_ptr
               /\ Len(stack') >= Len(stack) - 1]_vars

\* a return to a pushed address: 0 was popped and the pointer is 1
C16_Witness ==
    /\ instructions = <<Push(0), EndSubroutine>>
    /\ instruction_ptr = 1
    /\ stack = <<>>
    /\ vm_status = "running"

\* C17: Call(label) at index c with a known label pushes exactly one value,
\* c + 1, and transfers control to the label's recorded index (the loop's
\* increment follows); with an unknown label it fails and the pointer does
\* not move.
C17_CallPushesReturnAddress ==
    [][Fetched("Call")
       => IF LabelKnown
          THEN /\ vm_status' = "running"
               /\ stack' = Append(stack, instruction_ptr + 1)
               /\ instruction_ptr' = labels[Fetch.instr.label] + 1
          ELSE /\ vm_status' = "error"
               /\ instruction_ptr' = instruction_ptr]_vars

\* the Call at index 1 has pushed 2 and control is past the label at index 0
C17_Witness ==
    /\ instructions = <<MarkLocation(<<"\t">>), Call(<<"\t">>)>>
    /\ instruction_ptr = 1
    /\ stack = <<2>>
    /\ vm_status = "running"

InvalidCases ==
    {<<EncodeProgram(p) \o b, p>> : p \in ValidPrefixes, b \in InvalidSelectors}

StartsWith(toks, prefix) ==
    Len(toks) >= Len(prefix) /\ SubSeq(toks, 1, Len(prefix)) = prefix

\* C18: a token combination that selects no instruction inside its family,
\* or a number literal whose sign token is LineFeed, makes parse fail with a
\* decode error (Err); the instructions decoded before it stay in the output
\* in order and nothing is decoded from the tokens after it.
C18_InvalidSelectorIsDecodeError ==
    \A e \in InvalidCases :
        StartsWith(input, e[1])
        => /\ parse_status \in {"running", "err"}
           /\ current <= Len(e[1])
           /\ parse_status = "err" => (output = e[2] /\ current = Len(e[1]))
           /\ parse_status = "running" => StartsWith(e[2], output)

\* Push(-50), Swap, then Arithmetic Tab LineFeed, then more instructions
C18_Witness ==
    /\ parse_status = "err"
    /\ input = TestTokens \o <<"Space", "LineFeed", "Tab">>
               \o <<"Tab", "Space", "Tab", "LineFeed">>
               \o <<"Space", "Space", "Space", "Tab", "LineFeed">>
               \o <<"LineFeed", "LineFeed", "LineFeed">>
    /\ output = <<Push(-50), Swap>>
    /\ parse_error = <<"invalid arithmetic instruction">>

\* C19: the heap keeps the number of cells chosen at construction (HeapSize,
\* or 1024 for VM::new) through every step, successful or failing; every
\* cell is 0 until a successful HeapStore to its address; HeapRetrieve with a
\* negative or out-of-range address fails and pushes no value.
C19_HeapSizeFixed ==
    [][LET n == Len(stack)
       IN  /\ Len(heap') = Len(heap)
           /\ vm_status = "new"
              => /\ Len(heap) \in {HeapSize, DefaultHeapSize}
                 /\ \A a \in 1..Len(heap) : heap[a] = 0
           /\ \A a \in 1..Len(heap) :
                heap'[a] # heap[a]
                => /\ Fetched("HeapStore")
                   /\ n >= 2
                   /\ stack[n - 1] = a - 1
                   /\ heap'[a] = stack[n]
                   /\ vm_status' = "running"
           /\ (Fetched("HeapRetrieve") /\ n >= 1)
              => IF stack[n] < 0 \/ stack[n] >= Len(heap)
                 THEN vm_status' = "error" /\ stack' = Front(stack)
                 ELSE /\ vm_status' = "running"
                      /\ stack' = Append(Front(stack), heap[stack[n] + 1])]_vars

\* VM::new: the address 1024 has been refused and the 1024 cells are still 0
C19_Witness ==
    /\ instructions = <<Push(DefaultHeapSize), HeapRetrieve>>
    /\ Len(heap) = DefaultHeapSize
    /\ heap = HeapOfSize(DefaultHeapSize)
    /\ vm_status = "error"
    /\ vm_error = <<"heap overflow">>
    /\ stack = <<>>

\* C20: execute returns success only in a step whose fetched instruction is
\* EndProgram, and that step changes neither the stack, the heap nor the
\* instruction pointer; every other way an execution ends is a failure, and
\* nothing runs after the end.
C20_SuccessOnlyAtEndProgram ==
    [][/\ (vm_status # "ok" /\ vm_status' = "ok")
          => /\ Fetched("EndProgram")
             /\ UNCHANGED <<stack, heap, instruction_ptr>>
       /\ Fetched("EndProgram") => vm_status' = "ok"
       /\ (vm_status = "running" /\ vm_status' # "running" /\ ~Fetched("EndProgram"))
          => vm_status' \in {"error", "panic"}
       /\ vm_status \in {"ok", "error", "panic"}
          => UNCHANGED <<vm_status, stack, heap, instruction_ptr, printed>>]_vars

\* EndProgram at index 1 has ended the execution with the stack as it was
C20_Witness ==
    /\ instructions = <<Push(0), EndProgram, Push(-1)>>
    /\ instruction_ptr = 1
    /\ stack = <<0>>
    /\ vm_status = "ok"

====
